---- MODULE Spec2Model ----
(***************************************************************************)
(* The probe collector of provision/probe/collector.py: one scheduler task *)
(* per protocol, one asyncio.Queue per protocol, the batching JSONL writer *)
(* task and the shutdown sequence of run_measurements.                     *)
(*                                                                         *)
(* All tasks run on one asyncio event loop, so a task runs without         *)
(* interruption from one await that suspends to the next.  Every action    *)
(* below is one such run of one task; the values of the pc variables are   *)
(* the awaits at which a task can be suspended.                            *)
(***************************************************************************)
EXTENDS Integers, Sequences, FiniteSets, TLC

----------------------------------------------------------------------------
(* Bounds of the model *)

\* how many ticks the scheduler of the first protocol may start
MaxTicks == 6
\* how many ticks the scheduler of each other protocol may start
MaxOtherTicks == 1
\* how many ticks of a run may end without a success: a failed probe, or a
\* tick dropped by the outer deadline
MaxFaults == 1
\* largest reading of time.perf_counter() in the runner specification
MaxClock == 9
\* how many ticks the scheduler of the timed specification may start
MaxSchedTicks == 10
\* latest reading of loop.time() at which that scheduler starts
MaxStart == 2
\* last reading of loop.time(), in units of 0.5 s, of the cadence specification
MaxTime == 40
\* the queue length the cadence specification compares against
QueueBound == 4
\* how many callbacks of each kind the transport delivers to one UDP probe
MaxCallbacks == 2
\* how many UDP probes run one after the other
MaxUdpProbes == 2
\* how many times run_measurements is called in one process
MaxRuns == 2

(* Program constants *)

\* run_measurements: batch_size
batch_size == 5
\* invoke_scheduler_with_protocol: the 0.5 s added to timeout in wait_for.
\* The timed specification counts time in units of 0.5 s.
grace == 1
\* write_batch_records_with_jsonl: flush_interval = 5.0, in units of 0.5 s
flush_interval == 10
\* run_udp: timeout = 1.0, the default, which the scheduler never overrides,
\* in units of 0.5 s
udp_timeout == 2

\* run_measurements: protocols.  The model runs the first two of
\* ["icmp", "tcp", "udp", "http"]; all four go through the same code.
protocols == <<"icmp", "tcp">>
NumProtocols == Len(protocols)
Protocols == {protocols[i] : i \in 1..NumProtocols}

\* Optional[...] values: None is the empty sequence, a present value x is <<x>>
None == <<>>
Some(x) == <<x>>

----------------------------------------------------------------------------
(* measure_latency *)

\* The ways the wrapped coroutine func can end.  kind is "return", or the
\* class of what it raises: "TimeoutError", "Exception" (any other subclass
\* of Exception, msg is str(exc)) or "CancelledError" (a BaseException,
\* thrown into func when the awaiting task or wait_for cancels it).
\* start and end are the readings of time.perf_counter(), a monotonic clock.
Messages == {"", "refused", "Ping timeout"}
FuncReturns == {[kind |-> "return", start |-> s, end |-> e, msg |-> ""] :
                  s \in 0..MaxClock, e \in 0..MaxClock} 
FuncEnds ==
    {o \in FuncReturns : o.start <= o.end}
    \cup {[kind |-> k, start |-> 0, end |-> 0, msg |-> m] :
            k \in {"TimeoutError", "Exception"}, m \in Messages}
    \cup {[kind |-> "CancelledError", start |-> 0, end |-> 0, msg |-> ""]}

\* What invoke does with the end of func: it returns a tuple
\* (duration_ms, status, reason), or the exception passes through it.
Returned(duration, status, reason) ==
    [raised |-> "none", duration_ms |-> duration, status |-> status, reason |-> reason]
Raised(exc) ==
    [raised |-> exc, duration_ms |-> None, status |-> "", reason |-> None]

\* invoke without its "except Exception" clause
invoke_without_except_Exception(o) ==
    CASE o.kind = "TimeoutError" -> Returned(None, "error", Some("timeout"))
      [] o.kind = "return"       -> Returned(Some((o.end - o.start) * 1000), "success", None)
      [] OTHER                   -> Raised(o.kind)

\* invoke with "except Exception" placed before "except TimeoutError"
invoke_except_Exception_first(o) ==
    CASE o.kind \in {"TimeoutError", "Exception"} -> Returned(None, "error", Some(o.msg))
      [] o.kind = "return"       -> Returned(Some((o.end - o.start) * 1000), "success", None)
      [] OTHER                   -> Raised(o.kind)

invoke(o) ==
    CASE o.kind = "TimeoutError" -> Returned(None, "error", Some("timeout"))
      [] o.kind = "Exception"    -> Returned(None, "error", Some(o.msg))
      [] o.kind = "return"       -> Returned(Some((o.end - o.start) * 1000), "success", None)
      [] OTHER                   -> Raised(o.kind)

----------------------------------------------------------------------------
(* collect *)

\* kwargs.get("host", kwargs.get("url", None))
TargetOf(p) == IF p = "http" THEN "[url]" ELSE "[host]"

\* The queue collect puts its record to: the one handed to the scheduler
QueueOf(p) == p

\* a record that carries 0 for the duration of a failed probe
Record_zero_duration(p, idx, r) ==
    [timestamp |-> idx, protocol |-> p, target |-> TargetOf(p),
     duration_ms |-> IF r.duration_ms = None THEN Some(0) ELSE r.duration_ms,
     status |-> r.status, reason |-> r.reason]

\* The record of one tick; the timestamp is abstracted to the tick's run_idx,
\* which, like the clock, never repeats within one protocol.
Record(p, idx, r) ==
    [timestamp |-> idx, protocol |-> p, target |-> TargetOf(p),
     duration_ms |-> r.duration_ms, status |-> r.status, reason |-> r.reason]

\* collect that puts the record of a successful probe only
collect_success_only(p, idx, o) ==
    LET r == invoke(o)
    IN IF r.raised = "none" /\ r.status = "success"
       THEN << <<QueueOf(p), Record(p, idx, r)>> >> ELSE <<>>

\* collect: await func, build the record, put it.  The result is the list of
\* <<queue, record>> puts it makes: none when func's exception passes through.
collect(p, idx, o) ==
    LET r == invoke(o)
    IN IF r.raised = "none" THEN << <<QueueOf(p), Record(p, idx, r)>> >> ELSE <<>>

----------------------------------------------------------------------------
(* State *)

VARIABLES
    stop_event,    \* asyncio.Event of run_measurements: TRUE when set
    spc,           \* per protocol: the await its scheduler task is suspended at
    run_idx,       \* per protocol: run_idx of invoke_scheduler_with_protocol
    proto_queues,  \* per protocol: the asyncio.Queue, items and _unfinished_tasks
    cancel_req,    \* per task: Task.cancel() was called and not yet delivered
    wpc,           \* the await the writer task is suspended at
    wi,            \* writer: index in protocols of the buffer being written
    buffers,       \* writer: buffers
    sink,          \* the lines of the output file
    mpc,           \* the await run_measurements is suspended at
    mi,            \* run_measurements: index in protocols of the queue joined
    enq,           \* history: per queue, every record ever put, in order
    completed,     \* history: per protocol, ticks whose runner returned a result
    at_stop,       \* history: per queue, Len(enq) when stop_event was first set
    cyc,           \* history: per protocol, the writer cycle suspended in a write
    rin,           \* runner specification: how func ends
    rout,          \* runner specification: what invoke made of it
    sch,           \* timed specification: one scheduler task and its clock
    cad,           \* cadence specification: schedulers and writer on one clock
    udp,           \* UDP specification: one call of run_udp
    cfg            \* configuration specification: the module-level tables

pipeline_vars == <<stop_event, spc, run_idx, proto_queues, cancel_req, wpc, wi,
                   buffers, sink, mpc, mi, enq, completed, at_stop, cyc>>
runner_vars == <<rin, rout>>
sched_vars == <<sch>>
cadence_vars == <<cad>>
udp_vars == <<udp>>
config_vars == <<cfg>>
\* the variables of the specifications of single parts of the program
unit_vars == <<runner_vars, sched_vars, cadence_vars, udp_vars, config_vars>>
vars == <<pipeline_vars, unit_vars>>

Tasks == Protocols \cup {"writer"}
SchedulerEnded == {"stopped", "cancelled"}
WriterEnded == {"done", "cancelled", "failed"}

\* The ends of func the pipeline draws from: a success and a failure
ProbeEnds ==
    {[kind |-> "return", start |-> 0, end |-> 1, msg |-> ""],
     [kind |-> "TimeoutError", start |-> 0, end |-> 0, msg |-> ""]}
Cancellation == [kind |-> "CancelledError", start |-> 0, end |-> 0, msg |-> ""]

NoCycle == [q |-> 0, b |-> 0, enq |-> 0, flushes |-> <<>>]
RunnerIdle == [raised |-> "idle", duration_ms |-> None, status |-> "", reason |-> None]
\* interval and timeout of a protocol, in units of 0.5 s
PROTOCOL_DEFAULT_SCHEDULERS_CONFIGURATIONS ==
    [icmp |-> [interval |-> 4, timeout |-> 4],
     tcp |-> [interval |-> 10, timeout |-> 4]]
\* host and port of a protocol; a key the dictionary does not have is None
PROTOCOL_DEFAULT_CONFIGURATIONS ==
    [icmp |-> [host |-> "[host]", port |-> None],
     tcp |-> [host |-> "[host]", port |-> Some(80)]]
\* no call of run_measurements so far: the inner dictionaries of the two
\* module-level tables hold what the source text gives them
NoOverrides == [p \in Protocols |-> [interval |-> None, timeout |-> None, port |-> None]]
ConfigIdle ==
    [sched |-> PROTOCOL_DEFAULT_SCHEDULERS_CONFIGURATIONS,
     conf |-> PROTOCOL_DEFAULT_CONFIGURATIONS,
     runs |-> 0, given |-> NoOverrides,
     used |-> [p \in Protocols |-> [interval |-> 0, timeout |-> 0, host |-> "", port |-> None]]]
\* run_udp, not called
UdpIdle ==
    [pc |-> "off", n |-> 0, fut |-> "none", resolved |-> 0, transport |-> "none",
     received |-> 0, errors |-> 0, elapsed |-> 0, exit |-> "", out |-> RunnerIdle]
\* the cadence specification, not started
CadIdle ==
    [now |-> 0, wdue |-> 0,
     q |-> [p \in Protocols |-> 0], b |-> [p \in Protocols |-> 0],
     sched |-> [p \in Protocols |-> [pc |-> "off", due |-> 0, next_tick |-> 0]]]
\* the scheduler of the timed specification, not started
SchedIdle ==
    [pc |-> "off", protocol |-> protocols[1], stop_event |-> FALSE, now |-> 0,
     t0 |-> 0, next_tick |-> 0, run_idx |-> 0, probe_start |-> 0, puts |-> 0,
     busy |-> 0, late |-> FALSE]

InitPipeline ==
    /\ stop_event = FALSE
    /\ spc = [p \in Protocols |-> "idle"]
    /\ run_idx = [p \in Protocols |-> 0]
    /\ proto_queues = [p \in Protocols |-> [items |-> <<>>, unfinished |-> 0]]
    /\ cancel_req = [t \in Tasks |-> FALSE]
    /\ wpc = "open"
    /\ wi = 0
    /\ buffers = [p \in Protocols |-> <<>>]
    /\ sink = <<>>
    /\ mpc = "wait"
    /\ mi = 0
    /\ enq = [p \in Protocols |-> <<>>]
    /\ completed = [p \in Protocols |-> 0]
    /\ at_stop = [p \in Protocols |-> 0]
    /\ cyc = [p \in Protocols |-> NoCycle]

Init ==
    /\ InitPipeline
    /\ rin = Cancellation
    /\ rout = RunnerIdle
    /\ sch = SchedIdle
    /\ cad = CadIdle
    /\ udp = UdpIdle
    /\ cfg = ConfigIdle

----------------------------------------------------------------------------
(* asyncio.Queue *)

put(q, item) == [items |-> Append(q.items, item), unfinished |-> q.unfinished + 1]
empty(q) == q.items = <<>>
get_item(q) == Head(q.items)
get_nowait(q) == [q EXCEPT !.items = Tail(@)]
\* an acknowledgement counted twice
task_done_twice(q) == [q EXCEPT !.unfinished = @ - 2]
task_done(q) == [q EXCEPT !.unfinished = @ - 1]

RECURSIVE PutAll(_, _)
PutAll(qs, puts) ==
    IF puts = <<>> THEN qs
    ELSE PutAll([qs EXCEPT ![puts[1][1]] = put(@, puts[1][2])], Tail(puts))

RECURSIVE LogAll(_, _)
LogAll(h, puts) ==
    IF puts = <<>> THEN h
    ELSE LogAll([h EXCEPT ![puts[1][1]] = Append(@, puts[1][2])], Tail(puts))

----------------------------------------------------------------------------
(* install_signal_handlers: _handler *)

\* a handler that flips the flag instead of setting it
Signal_toggle ==
    /\ stop_event' = ~stop_event
    /\ at_stop' = IF stop_event THEN at_stop ELSE [p \in Protocols |-> Len(enq[p])]
    /\ UNCHANGED <<spc, run_idx, proto_queues, cancel_req, wpc, wi, buffers, sink,
                   mpc, mi, enq, completed, cyc, unit_vars>>

Signal ==
    /\ stop_event' = TRUE
    /\ at_stop' = IF stop_event THEN at_stop ELSE [p \in Protocols |-> Len(enq[p])]
    /\ UNCHANGED <<spc, run_idx, proto_queues, cancel_req, wpc, wi, buffers, sink,
                   mpc, mi, enq, completed, cyc, unit_vars>>

----------------------------------------------------------------------------
(* invoke_scheduler_with_protocol *)

TickBudget(p) == IF p = protocols[1] THEN MaxTicks ELSE MaxOtherTicks
InTick(p) == IF spc[p] = "probing" THEN 1 ELSE 0

RECURSIVE SumOver(_, _)
SumOver(f, i) == IF i = 0 THEN 0 ELSE f[protocols[i]] + SumOver(f, i - 1)
Failures ==
    SumOver([p \in Protocols |->
               Cardinality({i \in 1..Len(enq[p]) : enq[p][i].status = "error"})],
            NumProtocols)
Drops == SumOver([p \in Protocols |-> run_idx[p] - completed[p]], NumProtocols)

\* a loop that does not test the stop flag (while True)
SchedTick_without_stop_test(p) ==
    /\ spc[p] \in {"idle", "sleeping"}
    /\ ~cancel_req[p]
    /\ run_idx[p] < TickBudget(p)
    /\ spc' = [spc EXCEPT ![p] = "probing"]
    /\ UNCHANGED <<stop_event, run_idx, proto_queues, cancel_req, wpc, wi, buffers,
                   sink, mpc, mi, enq, completed, at_stop, cyc, unit_vars>>

\* the while test and, when it passes, next_tick += interval and
\* wait_for(collect(...)), in which func suspends on its I/O
SchedTick(p) ==
    /\ spc[p] \in {"idle", "sleeping"}
    /\ ~cancel_req[p]
    /\ IF stop_event
       THEN spc' = [spc EXCEPT ![p] = "stopped"]
       ELSE /\ run_idx[p] < TickBudget(p)
            /\ spc' = [spc EXCEPT ![p] = "probing"]
    /\ UNCHANGED <<stop_event, run_idx, proto_queues, cancel_req, wpc, wi, buffers,
                   sink, mpc, mi, enq, completed, at_stop, cyc, unit_vars>>

\* func ends by itself within the outer deadline: collect goes on to its put,
\* then the finally clause and the sleep
SchedProbeEnds(p) ==
    /\ spc[p] = "probing"
    /\ ~cancel_req[p]
    /\ \E o \in ProbeEnds :
         LET puts == collect(p, run_idx[p], o)
         IN /\ o.kind = "return" \/ Failures + Drops < MaxFaults
            /\ proto_queues' = PutAll(proto_queues, puts)
            /\ enq' = LogAll(enq, puts)
    /\ completed' = [completed EXCEPT ![p] = @ + 1]
    /\ run_idx' = [run_idx EXCEPT ![p] = @ + 1]
    /\ spc' = [spc EXCEPT ![p] = "sleeping"]
    /\ UNCHANGED <<stop_event, cancel_req, wpc, wi, buffers, sink, mpc, mi,
                   at_stop, cyc, unit_vars>>

\* a tick without the except Exception clause: the TimeoutError of wait_for
\* leaves the loop and ends the task
SchedOuterDeadline_not_swallowed(p) ==
    /\ spc[p] = "probing"
    /\ ~cancel_req[p]
    /\ Failures + Drops < MaxFaults
    /\ run_idx' = [run_idx EXCEPT ![p] = @ + 1]
    /\ spc' = [spc EXCEPT ![p] = "cancelled"]
    /\ UNCHANGED <<stop_event, proto_queues, cancel_req, wpc, wi, buffers, sink,
                   mpc, mi, enq, completed, at_stop, cyc, unit_vars>>

\* the outer deadline timeout + 0.5 fires first: wait_for cancels collect and
\* raises TimeoutError, which except Exception swallows
SchedOuterDeadline(p) ==
    /\ spc[p] = "probing"
    /\ ~cancel_req[p]
    /\ Failures + Drops < MaxFaults
    /\ LET puts == collect(p, run_idx[p], Cancellation)
       IN /\ proto_queues' = PutAll(proto_queues, puts)
          /\ enq' = LogAll(enq, puts)
    /\ run_idx' = [run_idx EXCEPT ![p] = @ + 1]
    /\ spc' = [spc EXCEPT ![p] = "sleeping"]
    /\ UNCHANGED <<stop_event, cancel_req, wpc, wi, buffers, sink, mpc, mi,
                   completed, at_stop, cyc, unit_vars>>

\* Task.cancel() of run_measurements is delivered: CancelledError is raised at
\* the await the task is suspended at, only the finally clause of a tick runs
SchedCancelled(p) ==
    /\ cancel_req[p]
    /\ spc[p] \notin SchedulerEnded
    /\ LET puts == IF spc[p] = "probing"
                   THEN collect(p, run_idx[p], Cancellation) ELSE <<>>
       IN /\ proto_queues' = PutAll(proto_queues, puts)
          /\ enq' = LogAll(enq, puts)
    /\ run_idx' = [run_idx EXCEPT ![p] = @ + InTick(p)]
    /\ spc' = [spc EXCEPT ![p] = "cancelled"]
    /\ cancel_req' = [cancel_req EXCEPT ![p] = FALSE]
    /\ UNCHANGED <<stop_event, wpc, wi, buffers, sink, mpc, mi, completed,
                   at_stop, cyc, unit_vars>>

----------------------------------------------------------------------------
(* write_batch_records_with_jsonl *)

\* json.dumps(r): the values of the record in the order of its keys
json_keys == <<"timestamp", "protocol", "target", "duration_ms", "status", "reason">>
json_dumps(r) == <<r.timestamp, r.protocol, r.target, r.duration_ms, r.status, r.reason>>

\* the lines of a buffer written last record first
Lines_reversed(buf) == [i \in 1..Len(buf) |-> json_dumps(buf[Len(buf) + 1 - i])]

\* "\n".join(json.dumps(r) for r in buf) + "\n": one line per record, in order
Lines(buf) == [i \in 1..Len(buf) |-> json_dumps(buf[i])]

\* a write that takes the first record of the buffer only
write_first_record(file, buf) == file \o SubSeq(Lines(buf), 1, 1)

\* _file.write(...) on a file opened with mode "a"
write(file, buf) == file \o Lines(buf)

\* a flush that leaves the written records in the buffer
AfterFlush_without_clear(bufs, p) == bufs

\* buffers[proto].clear() after the write of a full buffer
AfterFlush(bufs, p) == [bufs EXCEPT ![p] = <<>>]

\* not stop_event.is_set() or any(not q.empty() for q in protocol_queues.values())
\* a loop that tests the stop flag only
LoopCondition_stop_only == ~stop_event

\* while not stop_event.is_set() or any(not q.empty() for q in ...)
LoopCondition == ~stop_event \/ \E p \in Protocols : ~empty(proto_queues[p])

\* The for loop over protocol_queues from the i-th protocol on, up to the next
\* await: the write of a buffer that reached batch_size, or the sleep.
RECURSIVE Drain(_, _, _)
Drain(i, qs, bufs) ==
    IF i > NumProtocols
    THEN [queues |-> qs, buffers |-> bufs, wpc |-> "sleep", wi |-> 0]
    ELSE LET p == protocols[i]
         IN IF empty(qs[p])
            THEN Drain(i + 1, qs, bufs)
            ELSE LET qs2 == [qs EXCEPT ![p] = task_done(get_nowait(@))]
                     bufs2 == [bufs EXCEPT ![p] = Append(@, get_item(qs[p]))]
                 IN IF Len(bufs2[p]) >= batch_size
                    THEN [queues |-> qs2, buffers |-> bufs2, wpc |-> "write", wi |-> i]
                    ELSE Drain(i + 1, qs2, bufs2)

\* The final flush from the i-th buffer on, up to the next await: the write
\* of a non-empty buffer, or the end of the task.
RECURSIVE FinalFlush(_, _)
FinalFlush(i, bufs) ==
    IF i > NumProtocols
    THEN [wpc |-> "done", wi |-> 0]
    ELSE IF bufs[protocols[i]] # <<>>
         THEN [wpc |-> "final", wi |-> i]
         ELSE FinalFlush(i + 1, bufs)

CycleStart ==
    [p \in Protocols |->
        [q |-> Len(proto_queues[p].items), b |-> Len(buffers[p]),
         enq |-> Len(enq[p]), flushes |-> <<>>]]

\* The while test, and what follows it up to the next await
WriterLoop ==
    IF LoopCondition
    THEN LET d == Drain(1, proto_queues, buffers)
         IN /\ proto_queues' = d.queues
            /\ buffers' = d.buffers
            /\ wpc' = d.wpc
            /\ wi' = d.wi
            /\ cyc' = IF d.wpc = "write" THEN CycleStart ELSE cyc
    ELSE LET f == FinalFlush(1, buffers)
         IN /\ wpc' = f.wpc
            /\ wi' = f.wi
            /\ UNCHANGED <<proto_queues, buffers, cyc>>

\* aiofiles.open(output, "a") has returned
WriterOpened ==
    /\ wpc = "open"
    /\ ~cancel_req["writer"]
    /\ WriterLoop
    /\ UNCHANGED <<stop_event, spc, run_idx, cancel_req, sink, mpc, mi, enq,
                   completed, at_stop, unit_vars>>

\* asyncio.sleep(flush_interval) has returned
WriterWake ==
    /\ wpc = "sleep"
    /\ ~cancel_req["writer"]
    /\ WriterLoop
    /\ UNCHANGED <<stop_event, spc, run_idx, cancel_req, sink, mpc, mi, enq,
                   completed, at_stop, unit_vars>>

\* the write of a full buffer has returned, or has raised (an OSError)
WriterFlushed ==
    /\ wpc = "write"
    /\ ~cancel_req["writer"]
    /\ LET p == protocols[wi]
       IN \/ LET d == Drain(wi + 1, proto_queues, AfterFlush(buffers, p))
             IN /\ sink' = write(sink, buffers[p])
                /\ proto_queues' = d.queues
                /\ buffers' = d.buffers
                /\ wpc' = d.wpc
                /\ wi' = d.wi
                /\ cyc' = IF d.wpc = "write"
                          THEN [cyc EXCEPT ![p].flushes = Append(@, Len(buffers[p]))]
                          ELSE [q \in Protocols |-> NoCycle]
          \/ /\ wpc' = "failed"
             /\ UNCHANGED <<sink, proto_queues, buffers, wi, cyc>>
    /\ UNCHANGED <<stop_event, spc, run_idx, cancel_req, mpc, mi, enq, completed,
                   at_stop, unit_vars>>

\* a write of the final flush has returned, or has raised
WriterFinalFlushed ==
    /\ wpc = "final"
    /\ ~cancel_req["writer"]
    /\ \/ LET f == FinalFlush(wi + 1, buffers)
          IN /\ sink' = write(sink, buffers[protocols[wi]])
             /\ wpc' = f.wpc
             /\ wi' = f.wi
       \/ /\ wpc' = "failed"
          /\ UNCHANGED <<sink, wi>>
    /\ UNCHANGED <<stop_event, spc, run_idx, proto_queues, cancel_req, buffers,
                   mpc, mi, enq, completed, at_stop, cyc, unit_vars>>

\* Task.cancel() of run_measurements is delivered: CancelledError is raised at
\* the await the writer is suspended at and leaves the function.  A write in
\* progress in the executor thread may or may not have reached the file.
WriterCancelled ==
    /\ cancel_req["writer"]
    /\ wpc \notin WriterEnded
    /\ \/ UNCHANGED sink
       \/ /\ wpc \in {"write", "final"}
          /\ sink' = write(sink, buffers[protocols[wi]])
    /\ wpc' = "cancelled"
    /\ cancel_req' = [cancel_req EXCEPT !["writer"] = FALSE]
    /\ UNCHANGED <<stop_event, spc, run_idx, proto_queues, wi, buffers, mpc, mi,
                   enq, completed, at_stop, cyc, unit_vars>>

----------------------------------------------------------------------------
(* run_measurements, from "await stop_event.wait()" on *)

\* for q in proto_queues.values(): await q.join(), from the i-th queue on, up
\* to a join that has to wait; after the last one, the writer is cancelled.
RECURSIVE JoinQueues(_)
JoinQueues(i) ==
    IF i > NumProtocols
    THEN [mpc |-> "gather_writer", mi |-> 0]
    ELSE IF proto_queues[protocols[i]].unfinished > 0
         THEN [mpc |-> "join", mi |-> i]
         ELSE JoinQueues(i + 1)

\* Task.cancel(): requested of a task that has not ended
Cancel(req, t, ended) == IF ended THEN req ELSE [req EXCEPT ![t] = TRUE]

\* stop_event.wait() returns; every scheduler task is cancelled
MainStopped ==
    /\ mpc = "wait"
    /\ stop_event
    /\ cancel_req' = [t \in Tasks |->
                        IF t \in Protocols
                        THEN Cancel(cancel_req, t, spc[t] \in SchedulerEnded)[t]
                        ELSE cancel_req[t]]
    /\ mpc' = "gather"
    /\ UNCHANGED <<stop_event, spc, run_idx, proto_queues, wpc, wi, buffers, sink,
                   mi, enq, completed, at_stop, cyc, unit_vars>>

MainContinue(i) ==
    LET j == JoinQueues(i)
    IN /\ mpc' = j.mpc
       /\ mi' = j.mi
       /\ cancel_req' = IF j.mpc = "gather_writer"
                        THEN Cancel(cancel_req, "writer", wpc \in WriterEnded)
                        ELSE cancel_req

\* gather(*tasks) returns once every scheduler task has ended
MainGathered ==
    /\ mpc = "gather"
    /\ \A p \in Protocols : spc[p] \in SchedulerEnded
    /\ MainContinue(1)
    /\ UNCHANGED <<stop_event, spc, run_idx, proto_queues, wpc, wi, buffers, sink,
                   enq, completed, at_stop, cyc, unit_vars>>

\* the join run_measurements waits in returns: no unfinished task is left
MainJoined ==
    /\ mpc = "join"
    /\ proto_queues[protocols[mi]].unfinished = 0
    /\ MainContinue(mi + 1)
    /\ UNCHANGED <<stop_event, spc, run_idx, proto_queues, wpc, wi, buffers, sink,
                   enq, completed, at_stop, cyc, unit_vars>>

\* gather(task_write_result_to_jsonl) returns; run_measurements returns
MainReturns ==
    /\ mpc = "gather_writer"
    /\ wpc \in WriterEnded
    /\ mpc' = "done"
    /\ UNCHANGED <<stop_event, spc, run_idx, proto_queues, cancel_req, wpc, wi,
                   buffers, sink, mi, enq, completed, at_stop, cyc, unit_vars>>

----------------------------------------------------------------------------
Scheduler(p) ==
    \/ SchedTick(p)
    \/ SchedProbeEnds(p)
    \/ SchedOuterDeadline(p)
    \/ SchedCancelled(p)

Writer ==
    \/ WriterOpened
    \/ WriterWake
    \/ WriterFlushed
    \/ WriterFinalFlushed
    \/ WriterCancelled

Main ==
    \/ MainStopped
    \/ MainGathered
    \/ MainJoined
    \/ MainReturns

Next ==
    \/ Signal
    \/ \E p \in Protocols : Scheduler(p)
    \/ Writer
    \/ Main

Spec == Init /\ [][Next]_vars

----------------------------------------------------------------------------
(* The specification of the wrapped runner alone: func ends in any of the    *)
(* ways of FuncEnds and invoke handles it.                                  *)

InitRunner ==
    /\ InitPipeline
    /\ rin \in FuncEnds
    /\ rout = RunnerIdle
    /\ sch = SchedIdle
    /\ cad = CadIdle
    /\ udp = UdpIdle
    /\ cfg = ConfigIdle

\* func ends the way rin says, and invoke returns or lets the exception pass
RunnerEnds ==
    /\ rout.raised = "idle"
    /\ rout' = invoke(rin)
    /\ UNCHANGED <<rin, pipeline_vars, sched_vars, cadence_vars, udp_vars, config_vars>>

\* the runner is called again
RunnerCalled ==
    /\ rout.raised # "idle"
    /\ rin' \in FuncEnds
    /\ rout' = RunnerIdle
    /\ UNCHANGED <<pipeline_vars, sched_vars, cadence_vars, udp_vars, config_vars>>

NextRunner == RunnerEnds \/ RunnerCalled

SpecRunner == InitRunner /\ [][NextRunner]_vars

----------------------------------------------------------------------------
(* invoke_scheduler_with_protocol in time.                                  *)
(* One scheduler task alone on the loop, with the readings of loop.time()   *)
(* in units of 0.5 s.  The code between two awaits takes no time; a timer   *)
(* fires at the time it was set for.  sch.now is the reading of loop.time() *)
(* at the last step of the task.                                            *)

interval == PROTOCOL_DEFAULT_SCHEDULERS_CONFIGURATIONS[sch.protocol].interval
timeout == PROTOCOL_DEFAULT_SCHEDULERS_CONFIGURATIONS[sch.protocol].timeout

max(a, b) == IF a >= b THEN a ELSE b

\* a sleep of one interval after every probe
delay_of_one_interval == interval
\* the argument of asyncio.sleep at the end of a tick
delay == max(0, sch.next_tick - sch.now)

\* the task is created at loop.time() = t0: next_tick = loop.time(), run_idx = 0
InitSched ==
    /\ InitPipeline
    /\ rin = Cancellation
    /\ rout = RunnerIdle
    /\ cad = CadIdle
    /\ udp = UdpIdle
    /\ cfg = ConfigIdle
    /\ \E p \in Protocols, t \in 0..MaxStart :
         sch = [SchedIdle EXCEPT !.pc = "test", !.protocol = p, !.now = t,
                                 !.t0 = t, !.next_tick = t]

\* the signal handler sets the event
TimedSignal ==
    /\ sch.pc \in {"test", "probing", "sleeping"}
    /\ ~sch.stop_event
    /\ sch' = [sch EXCEPT !.stop_event = TRUE]
    /\ UNCHANGED <<pipeline_vars, runner_vars, cadence_vars, udp_vars, config_vars>>

\* a tick that sets next_tick to one interval after the current time
TimedTick_rebased ==
    /\ sch.pc = "test"
    /\ IF sch.stop_event
       THEN sch' = [sch EXCEPT !.pc = "stopped"]
       ELSE /\ sch.run_idx < MaxSchedTicks
            /\ sch' = [sch EXCEPT !.pc = "probing",
                                  !.next_tick = sch.now + interval,
                                  !.probe_start = sch.now]
    /\ UNCHANGED <<pipeline_vars, runner_vars, cadence_vars, udp_vars, config_vars>>

\* the while test and, when it passes, next_tick += interval and the start of
\* wait_for(collect(...), timeout + 0.5)
TimedTick ==
    /\ sch.pc = "test"
    /\ IF sch.stop_event
       THEN sch' = [sch EXCEPT !.pc = "stopped"]
       ELSE /\ sch.run_idx < MaxSchedTicks
            /\ sch' = [sch EXCEPT !.pc = "probing",
                                  !.next_tick = @ + interval,
                                  !.probe_start = sch.now]
    /\ UNCHANGED <<pipeline_vars, runner_vars, cadence_vars, udp_vars, config_vars>>

\* a wait_for that does not enforce its deadline: collect ends one unit after
\* timeout + 0.5 and puts its record
TimedOuterDeadline_not_enforced ==
    /\ sch.pc = "probing"
    /\ sch' = [sch EXCEPT !.pc = "sleeping",
                          !.now = sch.probe_start + timeout + grace + 1,
                          !.puts = @ + 1,
                          !.run_idx = @ + 1,
                          !.busy = @ + timeout + grace + 1,
                          !.late = @ \/ timeout + grace + 1 > interval]
    /\ UNCHANGED <<pipeline_vars, runner_vars, cadence_vars, udp_vars, config_vars>>

\* collect ends d units after its start, before the deadline of wait_for:
\* the record is put, then the finally clause, then the sleep starts
TimedProbeEnds ==
    /\ sch.pc = "probing"
    /\ \E d \in 0..(timeout + grace - 1) :
         sch' = [sch EXCEPT !.pc = "sleeping",
                            !.now = sch.probe_start + d,
                            !.puts = @ + 1,
                            !.run_idx = @ + 1,
                            !.busy = @ + d,
                            !.late = @ \/ d > interval]
    /\ UNCHANGED <<pipeline_vars, runner_vars, cadence_vars, udp_vars, config_vars>>

\* the deadline of wait_for fires timeout + 0.5 after the start: collect is
\* cancelled, TimeoutError is swallowed, then the finally clause and the sleep
TimedOuterDeadline ==
    /\ sch.pc = "probing"
    /\ sch' = [sch EXCEPT !.pc = "sleeping",
                          !.now = sch.probe_start + timeout + grace,
                          !.run_idx = @ + 1,
                          !.busy = @ + timeout + grace,
                          !.late = @ \/ timeout + grace > interval]
    /\ UNCHANGED <<pipeline_vars, runner_vars, cadence_vars, udp_vars, config_vars>>

\* asyncio.sleep(max(0, next_tick - loop.time())) returns
TimedWake ==
    /\ sch.pc = "sleeping"
    /\ sch' = [sch EXCEPT !.pc = "test", !.now = @ + delay]
    /\ UNCHANGED <<pipeline_vars, runner_vars, cadence_vars, udp_vars, config_vars>>

NextSched ==
    \/ TimedSignal
    \/ TimedTick
    \/ TimedProbeEnds
    \/ TimedOuterDeadline
    \/ TimedWake

SpecSched == InitSched /\ [][NextSched]_vars

----------------------------------------------------------------------------
(* The schedulers and the writer on one clock, while the stop flag is unset. *)
(* Times are readings of loop.time() in units of 0.5 s; the code between     *)
(* two awaits and a write take no time.  cad.q and cad.b are the lengths of  *)
(* the queues and of the buffers.  Every probe ends with a record, after at  *)
(* most the default timeout of the runners (1.0 s).                          *)

\* the times a probe can take: up to the timeout of the runner
ProbeTimes == 0..2

\* run_measurements has created the writer task and the scheduler tasks
InitCadence ==
    /\ InitPipeline
    /\ rin = Cancellation
    /\ rout = RunnerIdle
    /\ sch = SchedIdle
    /\ udp = UdpIdle
    /\ cfg = ConfigIdle
    /\ cad = [CadIdle EXCEPT
                !.sched = [p \in Protocols |-> [pc |-> "test", due |-> 0, next_tick |-> 0]]]

\* the while test passes: next_tick += interval, and the probe starts
CadTick(p) ==
    /\ cad.sched[p].pc = "test"
    /\ cad.sched[p].due = cad.now
    /\ \E d \in ProbeTimes :
         cad' = [cad EXCEPT !.sched[p] =
                    [pc |-> "probing", due |-> cad.now + d,
                     next_tick |-> @.next_tick +
                         PROTOCOL_DEFAULT_SCHEDULERS_CONFIGURATIONS[p].interval]]
    /\ UNCHANGED <<pipeline_vars, runner_vars, sched_vars, udp_vars, config_vars>>

\* collect puts its record; the sleep until next_tick starts
CadProbeEnds(p) ==
    /\ cad.sched[p].pc = "probing"
    /\ cad.sched[p].due = cad.now
    /\ cad' = [cad EXCEPT !.q[p] = @ + 1,
                          !.sched[p].pc = "test",
                          !.sched[p].due = max(cad.now, cad.sched[p].next_tick)]
    /\ UNCHANGED <<pipeline_vars, runner_vars, sched_vars, udp_vars, config_vars>>

\* one writer cycle: for every protocol one get_nowait, the write of a buffer
\* that reached batch_size, then asyncio.sleep(flush_interval)
CadWriterCycle ==
    /\ cad.wdue = cad.now
    /\ cad' = [cad EXCEPT
                 !.q = [p \in Protocols |-> IF cad.q[p] > 0 THEN cad.q[p] - 1 ELSE 0],
                 !.b = [p \in Protocols |->
                          IF cad.q[p] = 0 THEN cad.b[p]
                          ELSE IF cad.b[p] + 1 >= batch_size THEN 0 ELSE cad.b[p] + 1],
                 !.wdue = cad.now + flush_interval]
    /\ UNCHANGED <<pipeline_vars, runner_vars, sched_vars, udp_vars, config_vars>>

\* the next timer of the loop
NextDue ==
    LET dues == {cad.wdue} \cup {cad.sched[p].due : p \in Protocols}
    IN CHOOSE t \in dues : \A u \in dues : t <= u

\* nothing is ready to run: the loop waits until the next timer
CadTime ==
    /\ NextDue > cad.now
    /\ NextDue <= MaxTime
    /\ cad' = [cad EXCEPT !.now = NextDue]
    /\ UNCHANGED <<pipeline_vars, runner_vars, sched_vars, udp_vars, config_vars>>

NextCadence ==
    \/ \E p \in Protocols : CadTick(p) \/ CadProbeEnds(p)
    \/ CadWriterCycle
    \/ CadTime

SpecCadence == InitCadence /\ [][NextCadence]_vars

----------------------------------------------------------------------------
(* run_udp under measure_latency.                                           *)
(* udp.fut is the state of response_fut, udp.resolved counts its            *)
(* set_result and set_exception calls, udp.transport is the datagram        *)
(* transport that create_datagram_endpoint returned.  A transport that      *)
(* create_datagram_endpoint made but does not return is closed by asyncio.  *)
(* udp.elapsed is the time since wait_for started, in units of 0.5 s; the   *)
(* clock stands still while a task or a callback is ready to run.           *)

\* ClientProtocol.datagram_received without the test of response_fut.done()
datagram_received_unguarded(u) ==
    [u EXCEPT !.fut = "result", !.resolved = @ + 1, !.received = @ + 1]

\* ClientProtocol.datagram_received
datagram_received(u) ==
    IF u.fut = "pending"
    THEN [u EXCEPT !.fut = "result", !.resolved = @ + 1, !.received = @ + 1]
    ELSE [u EXCEPT !.received = @ + 1]

\* ClientProtocol.error_received
error_received(u) ==
    IF u.fut = "pending"
    THEN [u EXCEPT !.fut = "exception", !.resolved = @ + 1, !.errors = @ + 1]
    ELSE [u EXCEPT !.errors = @ + 1]

\* the finally clause: transport.close()
close(u) == [u EXCEPT !.transport = "closed"]

\* what invoke makes of the way run_udp ended
UdpEnds(u, how, o) == [u EXCEPT !.pc = "ended", !.exit = how, !.out = invoke(o)]

InitUdp ==
    /\ InitPipeline
    /\ rin = Cancellation
    /\ rout = RunnerIdle
    /\ sch = SchedIdle
    /\ cad = CadIdle
    /\ udp = [UdpIdle EXCEPT !.pc = "endpoint", !.n = 1, !.fut = "pending"]
    /\ cfg = ConfigIdle

\* create_datagram_endpoint returns the transport: connection_made has sent
\* the datagram, and the send may have reported an error to error_received;
\* run_udp goes on to wait_for(response_fut, timeout)
UdpEndpointCreated ==
    /\ udp.pc = "endpoint"
    /\ \E refused \in BOOLEAN :
         LET u == [udp EXCEPT !.pc = "waiting", !.transport = "open"]
         IN udp' = IF refused THEN error_received(u) ELSE u
    /\ UNCHANGED <<pipeline_vars, runner_vars, sched_vars, cadence_vars, config_vars>>

\* create_datagram_endpoint raises (no socket, no route): the OSError leaves
\* run_udp before the try statement
UdpEndpointFails ==
    /\ udp.pc = "endpoint"
    /\ udp' = UdpEnds(udp, "endpoint",
                      [kind |-> "Exception", start |-> 0, end |-> 0, msg |-> "refused"])
    /\ UNCHANGED <<pipeline_vars, runner_vars, sched_vars, cadence_vars, config_vars>>

\* the transport delivers a datagram
UdpDatagram ==
    /\ udp.transport = "open"
    /\ udp.received < MaxCallbacks
    /\ udp' = datagram_received(udp)
    /\ UNCHANGED <<pipeline_vars, runner_vars, sched_vars, cadence_vars, config_vars>>

\* the transport reports an error (an ICMP port unreachable)
UdpError ==
    /\ udp.transport = "open"
    /\ udp.errors < MaxCallbacks
    /\ udp' = error_received(udp)
    /\ UNCHANGED <<pipeline_vars, runner_vars, sched_vars, cadence_vars, config_vars>>

\* time passes while run_udp waits for response_fut
UdpTime ==
    /\ udp.pc = "waiting"
    /\ udp.fut = "pending"
    /\ udp.elapsed < udp_timeout
    /\ udp' = [udp EXCEPT !.elapsed = @ + 1]
    /\ UNCHANGED <<pipeline_vars, runner_vars, sched_vars, cadence_vars, config_vars>>

\* a probe whose timeout counts as a success without data
UdpTimeout_as_success ==
    /\ udp.pc = "waiting"
    /\ udp.fut = "pending"
    /\ udp.elapsed = udp_timeout
    /\ udp' = UdpEnds(close([udp EXCEPT !.fut = "cancelled"]), "timeout",
                      [kind |-> "return", start |-> 0, end |-> udp.elapsed, msg |-> ""])
    /\ UNCHANGED <<pipeline_vars, runner_vars, sched_vars, cadence_vars, config_vars>>

\* the timeout of wait_for passes with response_fut pending: wait_for cancels
\* the future and raises TimeoutError; finally clause; except TimeoutError
UdpTimeout ==
    /\ udp.pc = "waiting"
    /\ udp.fut = "pending"
    /\ udp.elapsed = udp_timeout
    /\ udp' = UdpEnds(close([udp EXCEPT !.fut = "cancelled"]), "timeout",
                      [kind |-> "TimeoutError", start |-> 0, end |-> 0, msg |-> ""])
    /\ UNCHANGED <<pipeline_vars, runner_vars, sched_vars, cadence_vars, config_vars>>

\* the task resumes with response_fut resolved: wait_for returns its result
\* or raises its exception; finally clause
UdpWaitReturns ==
    /\ udp.pc = "waiting"
    /\ udp.fut \in {"result", "exception"}
    /\ udp' = IF udp.fut = "result"
              THEN UdpEnds(close(udp), "reply",
                           [kind |-> "return", start |-> 0, end |-> udp.elapsed, msg |-> ""])
              ELSE UdpEnds(close(udp), "error",
                           [kind |-> "Exception", start |-> 0, end |-> 0, msg |-> "refused"])
    /\ UNCHANGED <<pipeline_vars, runner_vars, sched_vars, cadence_vars, config_vars>>

\* the task is cancelled (outer deadline of the scheduler, or shutdown):
\* CancelledError is raised at the await; inside the try statement the
\* future is cancelled and the finally clause closes the transport
UdpCancelled ==
    /\ udp.pc \in {"endpoint", "waiting"}
    /\ udp' = IF udp.pc = "waiting"
              THEN UdpEnds(close([udp EXCEPT !.fut = IF @ = "pending"
                                                     THEN "cancelled" ELSE @]),
                           "cancel", Cancellation)
              ELSE UdpEnds(udp, "cancel", Cancellation)
    /\ UNCHANGED <<pipeline_vars, runner_vars, sched_vars, cadence_vars, config_vars>>

\* the next tick calls run_udp again
UdpCalled ==
    /\ udp.pc = "ended"
    /\ udp.n < MaxUdpProbes
    /\ udp' = [UdpIdle EXCEPT !.pc = "endpoint", !.n = udp.n + 1, !.fut = "pending"]
    /\ UNCHANGED <<pipeline_vars, runner_vars, sched_vars, cadence_vars, config_vars>>

NextUdp ==
    \/ UdpEndpointCreated
    \/ UdpEndpointFails
    \/ UdpDatagram
    \/ UdpError
    \/ UdpTime
    \/ UdpTimeout
    \/ UdpWaitReturns
    \/ UdpCancelled
    \/ UdpCalled

SpecUdp == InitUdp /\ [][NextUdp]_vars

----------------------------------------------------------------------------
(* run_measurements: the per-protocol configuration.                        *)
(* cfg.sched and cfg.conf are the inner dictionaries of the module-level    *)
(* tables PROTOCOL_DEFAULT_SCHEDULERS_CONFIGURATIONS and                    *)
(* PROTOCOL_DEFAULT_CONFIGURATIONS.  dict.copy() makes a new outer          *)
(* dictionary whose values are the same inner dictionaries, so an item      *)
(* assignment through the copy writes to these.  Times are in units of      *)
(* 0.5 s.                                                                   *)

\* the ip argument
Addresses == {"192.0.2.1"}
\* the configuration argument by protocol and key: None when the key is
\* not given
Overrides ==
    [Protocols -> [interval : {None, Some(2)}, timeout : {None, Some(6)},
                   port : {None, Some(8080)}]]

\* proto_schedulers[proto]["timeout"] = ..., ["interval"] = ...
SetSchedulers(d, on_args) ==
    [timeout |-> IF on_args.timeout # None THEN on_args.timeout[1] ELSE d.timeout,
     interval |-> IF on_args.interval # None THEN on_args.interval[1] ELSE d.interval]

\* proto_configurations[proto]["host"] = ip, ["port"] = p_config["port"]
SetConfigurations(d, on_args, ip) ==
    [host |-> ip,
     port |-> IF on_args.port # None THEN on_args.port ELSE d.port]

InitConfig ==
    /\ InitPipeline
    /\ rin = Cancellation
    /\ rout = RunnerIdle
    /\ sch = SchedIdle
    /\ cad = CadIdle
    /\ udp = UdpIdle
    /\ cfg = ConfigIdle

\* one call of run_measurements, up to the creation of the scheduler tasks:
\* cfg.used is what each scheduler task is created with
BuildConfiguration ==
    /\ cfg.runs < MaxRuns
    /\ \E ip \in Addresses, configuration \in Overrides :
         LET proto_schedulers ==
                 [p \in Protocols |-> SetSchedulers(cfg.sched[p], configuration[p])]
             proto_configurations ==
                 [p \in Protocols |-> SetConfigurations(cfg.conf[p], configuration[p], ip)]
         IN cfg' = [sched |-> proto_schedulers,
                    conf |-> proto_configurations,
                    runs |-> cfg.runs + 1,
                    given |-> configuration,
                    used |-> [p \in Protocols |->
                                [interval |-> proto_schedulers[p].interval,
                                 timeout |-> proto_schedulers[p].timeout,
                                 host |-> proto_configurations[p].host,
                                 port |-> proto_configurations[p].port]]]
    /\ UNCHANGED <<pipeline_vars, runner_vars, sched_vars, cadence_vars, udp_vars>>

NextConfig == BuildConfiguration

SpecConfig == InitConfig /\ [][NextConfig]_vars

----------------------------------------------------------------------------
(* Helpers of the properties *)

IsPrefix(s, t) == Len(s) <= Len(t) /\ SubSeq(t, 1, Len(s)) = s
Occurrences(line, file) == Cardinality({i \in 1..Len(file) : file[i] = line})
\* the lines of the sink that came from the queue of protocol p
SinkOf(p) == SelectSeq(sink, LAMBDA line : line[2] = p)
\* the place of a line among the records ever put to the queue of p, 0 if none
PlaceOf(line, p) ==
    IF \E k \in 1..Len(enq[p]) : json_dumps(enq[p][k]) = line
    THEN CHOOSE k \in 1..Len(enq[p]) : json_dumps(enq[p][k]) = line
    ELSE 0

Progress == Main \/ Writer \/ \E p \in Protocols : Scheduler(p)
AllQueuesEmpty == \A p \in Protocols : empty(proto_queues[p])
AllSchedulersEnded == \A p \in Protocols : spc[p] \in SchedulerEnded

----------------------------------------------------------------------------
(* Claims *)

\* C1: once run_measurements has returned, every record that was put to a
\* queue before stop_event was set is a line of the sink (runs in which a
\* write to the sink raised are left aside).
C1_NoRecordLostAtShutdown ==
    mpc = "done" /\ wpc # "failed" =>
        \A p \in Protocols : \A i \in 1..at_stop[p] :
            Occurrences(json_dumps(enq[p][i]), sink) >= 1

\* C2: at the step in which the writer task ends, by returning or by being
\* cancelled, every record ever put to a queue is in the sink exactly once.
C2_WriterEndsFlushed ==
    [][(wpc \notin WriterEnded /\ wpc' \in {"done", "cancelled"}) =>
          \A p \in Protocols : \A i \in 1..Len(enq'[p]) :
              Occurrences(json_dumps(enq'[p][i]), sink') = 1]_vars

\* C3: the shutdown order.  The writer leaves its loop for the final flush
\* only after the stop flag is set, every scheduler has ended and every queue
\* is empty, and run_measurements returns only after the writer has gone
\* through its final flush.
C3_ShutdownOrder ==
    /\ wpc \in {"final", "done"} =>
           stop_event /\ AllSchedulersEnded /\ AllQueuesEmpty
    /\ mpc = "done" => wpc = "done" /\ AllSchedulersEnded /\ AllQueuesEmpty

\* C4: after the stop flag is set the shutdown never gets stuck: until
\* run_measurements has returned, some task can take a step.
C4_ShutdownNeverStuck ==
    stop_event /\ mpc # "done" => ENABLED Progress

\* C5: the sink only grows by appended lines, and no record that was put to a
\* queue is in it more than once.
C5_NoDuplicate ==
    \A p \in Protocols : \A i \in 1..Len(enq[p]) :
        Occurrences(json_dumps(enq[p][i]), sink) <= 1
C5_AppendOnlyNoDuplicate ==
    /\ []C5_NoDuplicate
    /\ [][IsPrefix(sink, sink')]_vars
\* a size-triggered flush and a final flush have both written to the sink
C5_Witness ==
    /\ wpc = "done"
    /\ Len(sink) > batch_size
    /\ \E p \in Protocols : Len(SinkOf(p)) = batch_size + 1

\* C6: for each protocol, the lines of that protocol are in the sink in the
\* order in which their records were put to the queue.
C6_PerProtocolOrder ==
    \A p \in Protocols :
        LET lines == SinkOf(p)
        IN /\ \A i \in 1..Len(lines) : PlaceOf(lines[i], p) > 0
           /\ \A i, j \in 1..Len(lines) :
                i < j => PlaceOf(lines[i], p) < PlaceOf(lines[j], p)
\* a flushed batch of one protocol and a line of another are in the sink
C6_Witness ==
    /\ Len(SinkOf(protocols[1])) >= batch_size
    /\ Len(SinkOf(protocols[2])) >= 1

\* C7: every tick whose runner returned a result, success or error, put
\* exactly one record, to the queue of its own protocol: per queue, the
\* records ever put are as many as the completed ticks, all of that
\* protocol and all different.
C7_OneRecordPerCompletedTick ==
    \A p \in Protocols :
        /\ Len(enq[p]) = completed[p]
        /\ \A i \in 1..Len(enq[p]) : enq[p][i].protocol = p
        /\ \A i, j \in 1..Len(enq[p]) : i # j => enq[p][i] # enq[p][j]
\* a protocol has completed a successful and a failed tick
C7_Witness ==
    \E p \in Protocols :
        /\ completed[p] >= 2
        /\ \E i, j \in 1..Len(enq[p]) :
             enq[p][i].status = "success" /\ enq[p][j].status = "error"

\* C8: what invoke returns is one of three shapes: (None, "error", "timeout")
\* when func raised TimeoutError, (None, "error", str(exc)) when it raised
\* another Exception, (elapsed_ms, "success", None) with elapsed_ms >= 0 when
\* it returned; so duration_ms is present iff status is success and reason is
\* present iff status is error.
C8_ThreeShapes ==
    rout.raised = "none" =>
        /\ rin.kind = "TimeoutError" =>
             rout.duration_ms = None /\ rout.status = "error"
             /\ rout.reason = Some("timeout")
        /\ rin.kind = "Exception" =>
             rout.duration_ms = None /\ rout.status = "error"
             /\ rout.reason = Some(rin.msg)
        /\ rin.kind = "return" =>
             rout.duration_ms # None /\ rout.duration_ms[1] >= 0
             /\ rout.status = "success" /\ rout.reason = None
        /\ rout.status \in {"success", "error"}
        /\ rout.duration_ms # None <=> rout.status = "success"
        /\ rout.reason # None <=> rout.status = "error"
\* a TimeoutError with a message of its own was turned into the reason "timeout"
C8_Witness ==
    /\ rout.raised = "none"
    /\ rin.kind = "TimeoutError"
    /\ rin.msg = "Ping timeout"

\* C9 as stated: however func ends, cancellation included, invoke returns a
\* result and no exception passes to the caller.
C9_NeverRaises ==
    rout.raised \in {"idle", "none"}
\* C9 amended: when func returns or raises an Exception, invoke returns a
\* result; when func is cancelled, CancelledError passes through invoke to
\* the caller and no result is returned.
C9_RaisesOnlyCancellation ==
    rout.raised # "idle" =>
        /\ rin.kind \in {"return", "TimeoutError", "Exception"} => rout.raised = "none"
        /\ rin.kind = "CancelledError" => rout.raised = "CancelledError"
\* a transport error was turned into a result
C9_Witness ==
    /\ rout.raised = "none"
    /\ rin.kind = "Exception"
    /\ rin.msg = "refused"

\* C10: a writer cycle that starts with batch_size + 1 records in the queue
\* of a protocol and an empty buffer for it, and during which nothing more is
\* put to that queue, ends with exactly one flush of batch_size records of
\* that protocol, one record in its buffer and none in its queue.
CycleOf(p) ==
    IF wpc = "write" THEN cyc[p] ELSE CycleStart[p]
FlushesOf(p) ==
    IF wpc = "write" /\ protocols[wi] = p
    THEN Append(cyc[p].flushes, Len(sink') - Len(sink))
    ELSE CycleOf(p).flushes
CycleEnds ==
    /\ wpc \in {"open", "sleep", "write"}
    /\ wpc' = "sleep"
    /\ buffers' # buffers
C10_OneFlushOfFive ==
    [][\A p \in Protocols :
          (/\ CycleEnds
           /\ CycleOf(p).q = batch_size + 1
           /\ CycleOf(p).b = 0
           /\ Len(enq'[p]) = CycleOf(p).enq)
          => (/\ FlushesOf(p) = <<batch_size>>
              /\ Len(buffers'[p]) = 1
              /\ empty(proto_queues'[p]))]_vars

\* the writer takes a step that ends a cycle begun after a sleep
CycleAfterSleep ==
    /\ wpc = "sleep"
    /\ wpc' \in {"sleep", "write"}
    /\ buffers' # buffers
\* the writer takes at least one record from the queue of p
TakesFrom(p) == Len(proto_queues'[p].items) < Len(proto_queues[p].items)

\* C11: a record that is in a buffer when the writer wakes from its sleep of
\* flush_interval, with nothing new in the queue of its protocol, is written
\* to the sink in that cycle although the buffer is below batch_size.
C11_TimeBasedFlush ==
    [][\A p \in Protocols :
          (/\ CycleAfterSleep
           /\ buffers[p] # <<>>
           /\ empty(proto_queues[p]))
          => \A i \in 1..Len(buffers[p]) :
                 Occurrences(json_dumps(buffers[p][i]), sink') = 1]_vars

\* C12: when the writer takes from a queue in a cycle it takes all that is in
\* it: right after that step the queue is empty and the records are in the
\* buffer of that protocol or in the sink.
C12_DrainsAll ==
    [][\A p \in Protocols :
          TakesFrom(p) =>
              /\ empty(proto_queues'[p])
              /\ \A i \in 1..Len(proto_queues[p].items) :
                     LET r == proto_queues[p].items[i]
                     IN \/ \E j \in 1..Len(buffers'[p]) : buffers'[p][j] = r
                        \/ Occurrences(json_dumps(r), sink') = 1]_vars

\* C13: a scheduler is never pre-empted in a probe: a probe that has started
\* ends only by the runner's result, whose record is put to the queue, or by
\* the outer deadline, and the scheduler then goes on to its sleep.
C13_NeverPreemptedMidProbe ==
    [][\A p \in Protocols :
          (spc[p] = "probing" /\ spc'[p] # "probing") =>
              /\ spc'[p] = "sleeping"
              /\ Len(enq'[p]) = Len(enq[p]) + 1 \/ completed'[p] = completed[p]]_vars

\* C14: a scheduler tests the stop flag at the tick boundary, before the
\* probe of the tick: a probe starts only in a state where the flag is unset,
\* a scheduler that passes the boundary with the flag set ends without a
\* probe, and a stopped scheduler stays stopped.
C14_StopTestedBeforeProbe ==
    [][\A p \in Protocols :
          /\ (spc[p] # "probing" /\ spc'[p] = "probing") => ~stop_event
          /\ (spc[p] \in {"idle", "sleeping"} /\ stop_event /\ spc'[p] # spc[p])
                => spc'[p] \in SchedulerEnded
          /\ spc[p] = "stopped" =>
                /\ spc'[p] = "stopped"
                /\ run_idx'[p] = run_idx[p]
                /\ enq'[p] = enq[p]]_vars
\* a scheduler has observed the flag at a tick boundary after a full tick
C14_Witness == \E p \in Protocols : spc[p] = "stopped" /\ completed[p] >= 1

\* C15: the writer leaves its loop by its own test only when the stop flag is
\* set and every queue is empty; while the flag is unset or a queue holds a
\* record, a step of the loop test keeps the writer in the loop.
C15_DrainCondition ==
    [][(wpc \in {"open", "sleep"} /\ wpc' \notin {wpc, "cancelled"}) =>
          IF ~stop_event \/ ~AllQueuesEmpty
          THEN wpc' \in {"sleep", "write"}
          ELSE /\ wpc' \in {"final", "done"}
               /\ stop_event
               /\ AllQueuesEmpty]_vars
\* the writer has left its loop after it took records from a queue
C15_Witness ==
    /\ wpc \in {"final", "done"}
    /\ \E p \in Protocols : buffers[p] # <<>> \/ SinkOf(p) # <<>>

\* C16: the stop flag is never cleared, and a signal received when the flag
\* is set changes nothing.
C16_StopFlagMonotonic ==
    [][/\ stop_event => stop_event'
       /\ (stop_event /\ Signal) => UNCHANGED vars]_vars
\* the flag stayed set through the whole shutdown
C16_Witness == stop_event /\ mpc = "done" /\ \E p \in Protocols : at_stop[p] >= 1

\* C17: before the stop flag is set no scheduler has left its loop; a probe
\* that ends while the flag is unset, whatever its outcome, is followed by
\* the sleep of the same scheduler, and when the runner returned (a success
\* or an error result) exactly one record was put.
C17_FailedProbeNeverStops ==
    [][\A p \in Protocols :
          /\ ~stop_event' => spc'[p] \notin SchedulerEnded
          /\ (spc[p] = "probing" /\ spc'[p] # "probing" /\ ~stop_event) =>
                /\ spc'[p] = "sleeping"
                /\ run_idx'[p] = run_idx[p] + 1
                /\ IF completed'[p] = completed[p] + 1
                   THEN Len(enq'[p]) = Len(enq[p]) + 1
                   ELSE enq'[p] = enq[p]]_vars
\* a scheduler went on to a later probe after a probe that failed
C17_Witness ==
    \E p \in Protocols :
        /\ ~stop_event
        /\ Len(enq[p]) >= 2
        /\ enq[p][1].status = "error"
        /\ enq[p][2].status = "success"
\* a scheduler went on to a later probe after a tick dropped at the outer
\* deadline
C17_WitnessDropped ==
    \E p \in Protocols :
        /\ ~stop_event
        /\ run_idx[p] > completed[p]
        /\ spc[p] = "probing"

\* C20: a write that failed is surfaced: run_measurements does not return
\* normally when the writer ended on a failed write.
C20_FlushFailureSurfaced == ~(mpc = "done" /\ wpc = "failed")

\* C18: the probe phase of a tick ends no later than timeout + 0.5 s after
\* its start; a phase ended by that deadline puts no record, and in either
\* case the scheduler goes on to the sleep with run_idx advanced.
C18_OuterDeadlineBoundsTick ==
    [][(sch.pc = "probing" /\ sch'.pc # "probing") =>
          /\ sch'.now - sch.probe_start <= timeout + grace
          /\ sch'.now - sch.probe_start = timeout + grace => sch'.puts = sch.puts
          /\ sch'.pc = "sleeping"
          /\ sch'.run_idx = sch.run_idx + 1
          /\ sch'.next_tick = sch.next_tick]_vars
\* the probe of a later tick has started after a tick dropped at the deadline
C18_Witness ==
    /\ sch.pc = "probing"
    /\ sch.run_idx >= 2
    /\ sch.puts < sch.run_idx

\* C19: as long as no probe took longer than interval, the probe of tick k
\* starts at t0 + k * interval, whatever time the probes before it took.
C19_DriftFree ==
    (sch.pc = "probing" /\ ~sch.late) =>
        sch.probe_start = sch.t0 + sch.run_idx * interval
\* the tenth probe starts on the grid after nine probes that took half of
\* the interval or more on average
C19_Witness ==
    /\ sch.pc = "probing"
    /\ ~sch.late
    /\ sch.run_idx >= 9
    /\ 2 * sch.busy >= sch.run_idx * interval

\* the shape of a record put to the queue of protocol p
RecordSchema(r, p) ==
    /\ DOMAIN r = {json_keys[i] : i \in 1..Len(json_keys)}
    /\ r.protocol = p
    /\ r.status \in {"success", "error"}
    /\ r.duration_ms = None <=> r.status = "error"
    /\ r.reason = None <=> r.status = "success"

\* C22: every line a write appends to the sink is the JSON of one record put
\* to the queue of the buffer being written, with exactly the six fields, the
\* protocol of that queue, status success or error, a null duration_ms
\* exactly for an error and a null reason exactly for a success.
C22_LineSchema ==
    [][sink' # sink =>
          /\ IsPrefix(sink, sink')
          /\ \A i \in (Len(sink) + 1)..Len(sink') :
                /\ Len(sink'[i]) = Len(json_keys)
                /\ \E k \in 1..Len(enq[protocols[wi]]) :
                      /\ sink'[i] = json_dumps(enq[protocols[wi]][k])
                      /\ RecordSchema(enq[protocols[wi]][k], protocols[wi])]_vars
\* the sink holds the line of a success and the line of an error
C22_Witness ==
    \E i, j \in 1..Len(sink) : sink[i][5] = "success" /\ sink[j][5] = "error"

\* the write of a full buffer has returned and the loop went on
SizeFlushReturns ==
    /\ wpc = "write"
    /\ wpc' = "sleep" \/ (wpc' = "write" /\ wi' # wi)

\* C23: a buffer that reaches batch_size is written at once: the writer
\* suspends in the write of that buffer; when the write returns, the sink has
\* grown by the lines of all the records of that buffer, in one append and of
\* that protocol only, and the buffer is empty; at the end of a cycle (the
\* sleep) every buffer holds fewer than batch_size records.
C23_SizeTriggeredFlush ==
    [][/\ \A p \in Protocols :
             Len(buffers'[p]) >= batch_size =>
                 /\ wpc' \in {"write", "failed", "cancelled"}
                 /\ protocols[wi'] = p
       /\ wpc' = "sleep" => \A p \in Protocols : Len(buffers'[p]) < batch_size
       /\ SizeFlushReturns =>
             LET p == protocols[wi]
             IN /\ Len(buffers[p]) >= batch_size
                /\ Len(sink') = Len(sink) + Len(buffers[p])
                /\ IsPrefix(sink, sink')
                /\ \A i \in 1..Len(buffers[p]) :
                      /\ sink'[Len(sink) + i] = json_dumps(buffers[p][i])
                      /\ sink'[Len(sink) + i][2] = p
                /\ buffers'[p] = <<>>]_vars
\* a cycle has ended after a size-triggered flush, before any final flush
C23_Witness ==
    /\ wpc = "sleep"
    /\ Len(sink) >= batch_size

\* how many records the writer has taken from the queue of p so far
Taken(p) == Len(enq[p]) - Len(proto_queues[p].items)
\* run_measurements gets past the join of the queue of p
JoinReturns(p) ==
    /\ mpc = "join"
    /\ protocols[mi] = p
    /\ mpc' # "join" \/ mi' # mi

\* C25: in every state the unfinished count of a queue is the number of records
\* put minus the number the writer took, so every take is acknowledged once,
\* in the step that moves the record to the buffer; the join of a queue
\* can return exactly when every record ever put to it was taken, and it
\* returns only then, whether or not the records are in the sink.
C25_JoinAccounting ==
    [][\A p \in Protocols :
          /\ proto_queues[p].unfinished = Len(enq[p]) - Taken(p)
          /\ proto_queues'[p].unfinished = Len(enq'[p]) - Taken(p)'
          /\ TakesFrom(p) =>
                /\ Taken(p)' = Taken(p) + 1
                /\ \/ buffers'[p] # <<>> /\ buffers'[p][Len(buffers'[p])] = get_item(proto_queues[p])
                   \/ Occurrences(json_dumps(get_item(proto_queues[p])), sink') = 1
          /\ (mpc = "join" /\ protocols[mi] = p) =>
                (ENABLED MainJoined <=> Taken(p) = Len(enq[p]))
          /\ JoinReturns(p) => Taken(p) = Len(enq[p])]_vars
\* the joins have returned while a record that was taken is not in the sink
C25_Witness ==
    /\ mpc = "gather_writer"
    /\ \E p \in Protocols : buffers[p] # <<>> /\ Occurrences(json_dumps(buffers[p][1]), sink) = 0
\* the join of a queue has returned after it had to wait
C25_WitnessWaited ==
    /\ mpc = "join"
    /\ mi = 1
    /\ ~empty(proto_queues[protocols[1]])

\* how many probes the scheduler has started so far
Started == sch.run_idx + (IF sch.pc = "probing" THEN 1 ELSE 0)
\* next_tick is t0 plus one interval per tick started, and the probe in
\* flight did not start before the grid slot of its tick
OnGrid ==
    /\ sch.next_tick = sch.t0 + Started * interval
    /\ sch.pc = "probing" =>
          /\ sch.probe_start >= sch.t0 + sch.run_idx * interval
          /\ Started <= ((sch.probe_start - sch.t0) \div interval) + 1

\* C26: next_tick advances by exactly one interval per tick and is never
\* re-based; a sleep that starts at or after next_tick returns at once, and
\* the probe of the next tick starts at that time; no probe starts before
\* the grid slot of its tick, ticks are numbered without a gap.
C26_OverrunHandling ==
    [][/\ OnGrid
       /\ OnGrid'
       /\ (sch.pc = "sleeping" /\ sch'.pc = "test") =>
             /\ sch'.now = max(sch.now, sch.next_tick)
             /\ sch.now >= sch.next_tick => sch'.now = sch.now
       /\ (sch.pc = "test" /\ sch'.pc = "probing") =>
             /\ sch'.probe_start = sch.now
             /\ sch'.run_idx = sch.run_idx
             /\ sch'.next_tick = sch.next_tick + interval
       /\ sch'.run_idx \in {sch.run_idx, sch.run_idx + 1}]_vars
\* after a tick that took longer than interval, the probe of the next tick
\* has started behind its grid slot, and a later probe is back on the grid
C26_Witness ==
    /\ sch.late
    /\ sch.pc = "probing"
    /\ sch.probe_start > sch.t0 + sch.run_idx * interval
C26_WitnessCaughtUp ==
    /\ sch.late
    /\ sch.pc = "probing"
    /\ sch.probe_start = sch.t0 + sch.run_idx * interval

\* C24: with the default cadences and the stop flag unset, the number of
\* records waiting in each queue stays below a fixed bound.
C24_QueuesBounded == \A p \in Protocols : cad.q[p] < QueueBound

\* C21: a UDP probe whose wait ended with no datagram and no error delivered
\* and without a cancellation has the outcome (None, "error", "timeout"); a
\* probe that received no datagram never has the outcome success; the
\* outcome of a probe that ended does not change.
C21_UdpNoReplyIsTimeout ==
    [][/\ (udp'.pc = "ended" /\ udp'.exit \notin {"cancel", "endpoint"}
              /\ udp'.received = 0 /\ udp'.errors = 0)
          => udp'.out = Returned(None, "error", Some("timeout"))
       /\ (udp'.pc = "ended" /\ udp'.received = 0) => udp'.out.status # "success"
       /\ udp'.exit = "timeout" => udp'.out = Returned(None, "error", Some("timeout"))
       /\ (udp.pc = "ended" /\ udp'.n = udp.n) => udp'.out = udp.out]_vars
\* a probe has ended by its timeout with no callback delivered
C21_Witness ==
    /\ udp.pc = "ended"
    /\ udp.exit = "timeout"
    /\ udp.received = 0
    /\ udp.errors = 0

\* C28: response_fut is resolved at most once whatever callbacks arrive, and
\* when run_udp has ended the transport it got is closed.
C28_ResolvedOnceAndClosed ==
    /\ udp.resolved <= 1
    /\ udp.fut \in {"result", "exception"} <=> udp.resolved = 1
    /\ udp.pc = "ended" => udp.transport # "open"
    /\ (udp.pc = "ended" /\ udp.exit \in {"reply", "error", "timeout"})
          => udp.transport = "closed"
    /\ udp.pc = "waiting" => udp.transport = "open"
\* a probe has ended after several callbacks, with the transport closed
C28_Witness ==
    /\ udp.pc = "ended"
    /\ udp.transport = "closed"
    /\ udp.received + udp.errors >= 2
    /\ udp.resolved = 1
\* a probe cancelled in its wait has ended with the transport closed
C28_WitnessCancelled ==
    /\ udp.pc = "ended"
    /\ udp.exit = "cancel"
    /\ udp.transport = "closed"

\* C27: a call of run_measurements leaves the two module-level tables as
\* the source text defines them, and a call uses the default of every value
\* it was given no override for.
C27_DefaultsUnchanged ==
    /\ cfg.sched = PROTOCOL_DEFAULT_SCHEDULERS_CONFIGURATIONS
    /\ cfg.conf = PROTOCOL_DEFAULT_CONFIGURATIONS
    /\ cfg.runs >= 1 =>
          \A p \in Protocols :
             /\ cfg.given[p].interval = None =>
                   cfg.used[p].interval = PROTOCOL_DEFAULT_SCHEDULERS_CONFIGURATIONS[p].interval
             /\ cfg.given[p].timeout = None =>
                   cfg.used[p].timeout = PROTOCOL_DEFAULT_SCHEDULERS_CONFIGURATIONS[p].timeout
             /\ cfg.given[p].port = None =>
                   cfg.used[p].port = PROTOCOL_DEFAULT_CONFIGURATIONS[p].port
\* C27, the part about a later call only: a call without overrides uses the
\* defaults, whatever the calls before it were given.
C27_LaterRunUsesDefaults ==
    (cfg.runs >= 1 /\ cfg.given = NoOverrides) =>
        \A p \in Protocols :
           /\ cfg.used[p].interval = PROTOCOL_DEFAULT_SCHEDULERS_CONFIGURATIONS[p].interval
           /\ cfg.used[p].timeout = PROTOCOL_DEFAULT_SCHEDULERS_CONFIGURATIONS[p].timeout
           /\ cfg.used[p].port = PROTOCOL_DEFAULT_CONFIGURATIONS[p].port

====
